---- MODULE Spec2Model ----
(***************************************************************************)
(* A model of generate_descriptions.py: the batch processor                *)
(* (main / process_file), the description generator                        *)
(* (generate_description) and the agent client                             *)
(* (generate_description_with_agent), with the remote API, the file        *)
(* system and the environment as nondeterministic inputs; and of the       *)
(* second variant of generate_description, which normalizes the text of    *)
(* the completion.                                                         *)
(*                                                                         *)
(* Text is a sequence of tokens; " " is a whitespace token.  A Python      *)
(* exception is a record [cls, msg]: cls is "RequestException" for         *)
(* requests.exceptions.RequestException and its subclasses and             *)
(* "Exception" for every other subclass of Exception; msg is str(e).       *)
(* A JSON value is a record [t, v] with t in "dict", "list", "str",        *)
(* "null".                                                                 *)
(***************************************************************************)
EXTENDS Integers, Sequences, FiniteSets, TLC

\* ------------------------------------------------------------------ bounds

\* The largest number of rows of an input table.
MaxRows == 2

\* The largest number of lines of a completion's text.
MaxLines == 3

\* ------------------------------------------------------- program constants

\* max_polls one short.
max_polls_short == 60 - 1

\* max_polls = 60 (line 162)
max_polls == 60

\* time.sleep(5) in the polling loop (line 184)
poll_interval == 5

\* time.sleep(2) after each row (line 253)
row_delay == 2

\* -------------------------------------------------------------------- text

None == "None"

\* Python truthiness of an optional string argument: None and '' are falsy.
Falsy(x) == x \in {None, ""}

RECURSIVE lstrip(_)
lstrip(s) == IF s # <<>> /\ Head(s) = " " THEN lstrip(Tail(s)) ELSE s

RECURSIVE rstrip(_)
rstrip(s) ==
    IF s # <<>> /\ s[Len(s)] = " " THEN rstrip(SubSeq(s, 1, Len(s) - 1)) ELSE s

\* str.strip()
strip(s) == rstrip(lstrip(s))

\* str.startswith("Error")
BeginsWithError(s) == Len(s) >= 1 /\ s[1] = "Error"

\* --------------------------------------------------------------- exceptions

RequestException(m) == [cls |-> "RequestException", msg |-> m]

OtherException(m) == [cls |-> "Exception", msg |-> m]

NoExc == [cls |-> "none", msg |-> <<>>]

\* -------------------------------------------------------------------- JSON

JNull == [t |-> "null", v |-> <<>>]

JStr(s) == [t |-> "str", v |-> s]

JList(s) == [t |-> "list", v |-> s]

JDict(f) == [t |-> "dict", v |-> f]

EmptyDict == JDict(<<>>)

\* The outcome of evaluating an expression: a value, or a raised exception.
Val(x) == [ok |-> TRUE, val |-> x, exc |-> NoExc]

Raised(x) == [ok |-> FALSE, val |-> JNull, exc |-> x]

\* r.get(key, default) applied to the outcome r of the expression before it:
\* only a dict has .get; on a list, a str or None it is an AttributeError.
DictGet(r, key, default) ==
    IF ~r.ok THEN r
    ELSE IF r.val.t # "dict"
         THEN Raised(OtherException(<<"AttributeError: no attribute 'get'">>))
    ELSE IF key \in DOMAIN r.val.v THEN Val(r.val.v[key])
    ELSE Val(default)

\* r[0] applied to the outcome r: IndexError on an empty list, KeyError on a
\* dict (no key 0), TypeError on None, IndexError on an empty str.
Index0(r) ==
    IF ~r.ok THEN r
    ELSE IF r.val.t = "list"
         THEN IF Len(r.val.v) = 0
              THEN Raised(OtherException(<<"list index out of range">>))
              ELSE Val(r.val.v[1])
    ELSE IF r.val.t = "dict" THEN Raised(OtherException(<<"KeyError: 0">>))
    ELSE IF r.val.t = "str"
         THEN IF Len(r.val.v) = 0
              THEN Raised(OtherException(<<"string index out of range">>))
              ELSE Val(JStr(<<r.val.v[1]>>))
    ELSE Raised(OtherException(<<"TypeError: not subscriptable">>))

\* r.strip() applied to the outcome r: only a str has .strip.
Strip(r) ==
    IF ~r.ok THEN r
    ELSE IF r.val.t = "str" THEN Val(JStr(strip(r.val.v)))
    ELSE Raised(OtherException(<<"AttributeError: no attribute 'strip'">>))

\* result.get('choices', [{}])[0].get('message', {}).get('content', '').strip()
\* (line 78)
ChatExtract(result) ==
    Strip(DictGet(DictGet(Index0(DictGet(Val(result), "choices",
                                         JList(<<EmptyDict>>))),
                          "message", EmptyDict),
                  "content", JStr(<<>>)))

\* ------------------------------------------------------------------- state

VARIABLES
    pc,              \* main / process_file: where control is
    api_key,         \* process_file's api_key (argument, then environment)
    repository,      \* process_file's repository (argument, then environment)
    df,              \* the table read from the input file
    idx,             \* rows the loop has finished
    ai_descriptions, \* the list the loop appends to
    column,          \* df['AI generated description'] once assigned
    outputWritten,   \* format of the written output file, or None
    exitCode,        \* the process's exit code, -1 while running
    stderr,          \* what main printed to stderr
    delays,          \* time.sleep(2) calls so far
    gpc,             \* generate_description: where control is
    row,             \* the row generate_description was called with
    chatStatus,      \* outcome of this row's completion request
    chatBody,        \* which body its 200 answer carried (0: none, -1: not JSON)
    e,               \* the exception bound by `except ... as e` (line 90)
    ret,             \* generate_description's return value
    apc,             \* generate_description_with_agent: where control is
    poll_count,      \* its poll_count
    agentRet,        \* its return value
    agentExc,        \* the exception it raised last
    lastStatus,      \* the last status answer: status, error detail, body
    chatPosts,       \* POST /v1/chat/completions sent for this row
    agentCreates,    \* POST /v0/agents sent for this row
    agentJobs,       \* agent jobs created for this row (answers with an id)
    statusQueries,   \* GET /v0/agents/{id} sent for the current job
    pollWaits,       \* time.sleep(5) calls for the current job
    anyRequest,      \* whether any HTTP request was sent in this run
    genLog,          \* the calls of generate_description that returned
    content,         \* second variant: the lines of the completion's text
    passed           \* the preconditions of process_file found to hold

vars == <<pc, api_key, repository, df, idx, ai_descriptions, column,
          outputWritten, exitCode, stderr, delays, gpc, row, chatStatus,
          chatBody, e, ret, apc, poll_count, agentRet, agentExc, lastStatus,
          chatPosts,
          agentCreates, agentJobs, statusQueries, pollWaits, anyRequest, genLog,
          content, passed>>

fileVars == <<df, idx, ai_descriptions, column, outputWritten, delays>>

genVars == <<gpc, row, chatStatus, chatBody, e, ret, genLog>>

agentVars == <<apc, poll_count, agentRet, agentExc, lastStatus>>

counters == <<chatPosts, agentCreates, agentJobs, statusQueries, pollWaits,
              anyRequest>>

\* ------------------------------------------------------------------ inputs

\* A run of the whole program over several rows draws the answers of the
\* remote API from small sets that keep one answer of each kind (Full is
\* false); a call of one function alone draws them from the full sets.
Full == pc = "direct"

\* Titles of a row.  NaN is what pandas gives for an empty cell: a float,
\* which row['title'][:50] (line 241) cannot slice.
NaN == "NaN"

Titles == {"T1", "T2", NaN}

Descriptions == {"D1"}

Rows == [title : Titles, description : Descriptions]

\* All tables of at most MaxRows rows.
Tables == UNION {[1..n -> Rows] : n \in 0..MaxRows}

\* Values of an optional string: an argument or an environment variable.
KeyValues == {None, "", "KEY"}

RepoValues == {None, "", "REPO"}

\* Suffixes of a path.
Suffixes == {".csv", ".xlsx", ".xls", ".txt"}

\* Status codes the completion endpoint answers with.
ChatStatuses == {"200", "404", "500"}

\* Status codes the agent endpoints answer with.
AgentStatuses == IF Full THEN {"200", "201", "500"} ELSE {"200"}

\* Bodies of a 200 answer of the completion endpoint (valid JSON).
ChatBody(i) ==
    CASE i = 1 -> EmptyDict
      [] i = 2 -> JDict([choices |-> JList(<<>>)])
      [] i = 3 -> JDict([choices |-> JList(<<EmptyDict>>)])
      [] i = 4 -> JDict([choices |-> JList(<<JDict([message |-> EmptyDict])>>)])
      [] i = 5 -> JDict([choices |-> JList(<<JDict([message |->
                      JDict([content |-> JStr(<<" ", "Hosts", " ">>)])])>>)])
      [] i = 6 -> JDict([choices |-> JList(<<JDict([message |->
                      JDict([content |-> JNull])])>>)])
      [] i = 7 -> JDict([choices |-> JList(<<JDict([message |-> JNull])>>)])
      [] i = 8 -> JList(<<>>)
      [] OTHER -> JDict([choices |-> JList(<<JDict([message |->
                      JDict([content |-> JStr(<<" ">>)])])>>)])

ChatBodyIds == IF Full THEN 1..9 ELSE {2, 5}

\* Exceptions of the HTTP library.  A body that is not JSON makes
\* response.json() raise JSONDecodeError, which is a RequestException in
\* requests >= 2.27 and a plain ValueError before: both are outcomes.
ConnError == RequestException(<<"connection failed">>)

JsonErrors ==
    IF Full
    THEN {RequestException(<<"invalid JSON">>), OtherException(<<"invalid JSON">>)}
    ELSE {}

NoRow == [title |-> None, description |-> None]

\* No status answer: none yet, or the status query failed.
NoStatus == [status |-> <<>>, error |-> <<>>, data |-> JNull]

\* Everything but the arguments, as it is when main starts.
Fresh ==
    /\ df = <<>>
    /\ idx = 0
    /\ ai_descriptions = <<>>
    /\ column = <<>>
    /\ outputWritten = None
    /\ exitCode = -1
    /\ stderr = None
    /\ delays = 0
    /\ row = NoRow
    /\ chatStatus = None
    /\ chatBody = 0
    /\ e = NoExc
    /\ ret = <<>>
    /\ poll_count = 0
    /\ agentRet = <<>>
    /\ agentExc = NoExc
    /\ lastStatus = NoStatus
    /\ chatPosts = 0
    /\ agentCreates = 0
    /\ agentJobs = 0
    /\ statusQueries = 0
    /\ pollWaits = 0
    /\ anyRequest = FALSE
    /\ genLog = <<>>
    /\ content = <<>>
    /\ passed = {}

\* main() has parsed its arguments and calls process_file (line 309).
Init ==
    /\ pc = "load_prompt"
    /\ api_key \in KeyValues
    /\ repository \in RepoValues
    /\ gpc = "idle"
    /\ apc = "idle"
    /\ Fresh

\* ------------------------------------------------------- main, process_file

\* process_file raises and main's handler prints the error and exits with 1
\* (lines 310-312).
MainFails(msg) ==
    /\ pc' = "exit"
    /\ exitCode' = 1
    /\ stderr' = msg

\* load_prompt_template (lines 20-25, called at line 202)
LoadPromptTemplate ==
    /\ UNCHANGED content
    /\ pc = "load_prompt"
    /\ \E exists \in BOOLEAN :
          IF exists
          THEN /\ pc' = "get_key"
               /\ passed' = passed \cup {"prompt"}
               /\ UNCHANGED <<exitCode, stderr>>
          ELSE /\ MainFails("FileNotFoundError: Prompt file not found")
               /\ UNCHANGED passed
    /\ UNCHANGED <<api_key, repository, fileVars, genVars, agentVars, counters>>

\* KeyMissing with `is None` in place of `not`.
KeyMissing_OnlyNone(key) == key = None

\* lines 205, 207: if not api_key
KeyMissing(key) == Falsy(key)

\* lines 204-215: the API key and the repository, from the environment when
\* the argument is missing
GetApiKey ==
    /\ UNCHANGED content
    /\ pc = "get_key"
    /\ \E envKey \in KeyValues, envRepo \in RepoValues :
          LET key == IF KeyMissing(api_key) THEN envKey ELSE api_key
          IN /\ api_key' = key
             /\ IF KeyMissing(key)
                THEN /\ MainFails("ValueError: Cursor API key not provided")
                     /\ UNCHANGED <<repository, passed>>
                ELSE /\ pc' = "read_input"
                     /\ passed' = passed \cup {"key"}
                     /\ repository' =
                            IF Falsy(repository) THEN envRepo ELSE repository
                     /\ UNCHANGED <<exitCode, stderr>>
    /\ UNCHANGED <<fileVars, genVars, agentVars, counters>>

\* ReadInput with a file of an unsupported type read as CSV, the way the
\* output path defaults to CSV.
ReadInput_DefaultsToCsv ==
    /\ UNCHANGED content
    /\ pc = "read_input"
    /\ \E exists \in BOOLEAN, sfx \in Suffixes, readable \in BOOLEAN,
          cols \in SUBSET {"title", "description"}, table \in Tables :
          LET supported == IF sfx \in {".csv", ".xlsx", ".xls"}
                           THEN {"input"} ELSE {}
          IN IF ~exists
             THEN /\ MainFails("FileNotFoundError: Input file not found")
                  /\ UNCHANGED <<df, ai_descriptions, passed>>
             ELSE IF ~readable
             THEN /\ MainFails("pandas: cannot read the file")
                  /\ passed' = passed \cup supported
                  /\ UNCHANGED <<df, ai_descriptions>>
             ELSE IF cols # {"title", "description"}
             THEN /\ MainFails("ValueError: Missing required columns")
                  /\ passed' = passed \cup supported
                  /\ UNCHANGED <<df, ai_descriptions>>
             ELSE /\ pc' = "loop"
                  /\ passed' = passed \cup supported \cup {"columns"}
                  /\ df' = table
                  /\ ai_descriptions' = <<>>
                  /\ UNCHANGED <<exitCode, stderr>>
    /\ UNCHANGED <<api_key, repository, idx, column, outputWritten, delays,
                   genVars, agentVars, counters>>

\* lines 217-238: read the input file and validate its columns
ReadInput ==
    /\ UNCHANGED content
    /\ pc = "read_input"
    /\ \E exists \in BOOLEAN, sfx \in Suffixes, readable \in BOOLEAN,
          cols \in SUBSET {"title", "description"}, table \in Tables :
          LET supported == IF sfx \in {".csv", ".xlsx", ".xls"}
                           THEN {"input"} ELSE {}
          IN IF ~exists
             THEN /\ MainFails("FileNotFoundError: Input file not found")
                  /\ UNCHANGED <<df, ai_descriptions, passed>>
             ELSE IF supported = {}
             THEN /\ MainFails("ValueError: Unsupported file type")
                  /\ UNCHANGED <<df, ai_descriptions, passed>>
             ELSE IF ~readable
             THEN /\ MainFails("pandas: cannot read the file")
                  /\ passed' = passed \cup supported
                  /\ UNCHANGED <<df, ai_descriptions>>
             ELSE IF cols # {"title", "description"}
             THEN /\ MainFails("ValueError: Missing required columns")
                  /\ passed' = passed \cup supported
                  /\ UNCHANGED <<df, ai_descriptions>>
             ELSE /\ pc' = "loop"
                  /\ passed' = passed \cup supported \cup {"columns"}
                  /\ df' = table
                  /\ ai_descriptions' = <<>>
                  /\ UNCHANGED <<exitCode, stderr>>
    /\ UNCHANGED <<api_key, repository, idx, column, outputWritten, delays,
                   genVars, agentVars, counters>>

\* lines 240-249: the next row of df.iterrows(): print its title and call
\* generate_description, which builds the prompt (lines 44-59) and enters
\* its try block
LoopNext ==
    /\ UNCHANGED <<content, passed>>
    /\ pc = "loop"
    /\ idx < Len(df)
    /\ IF df[idx + 1].title = NaN
       THEN /\ MainFails("TypeError: 'float' object is not subscriptable")
            /\ UNCHANGED <<genVars, agentVars, counters>>
       ELSE /\ pc' = "generate"
            /\ gpc' = "chat"
            /\ row' = df[idx + 1]
            /\ chatStatus' = None
            /\ chatBody' = 0
            /\ e' = NoExc
            /\ ret' = <<>>
            /\ agentRet' = <<>>
            /\ agentExc' = NoExc
            /\ lastStatus' = NoStatus
            /\ chatPosts' = 0
            /\ agentCreates' = 0
            /\ agentJobs' = 0
            /\ statusQueries' = 0
            /\ pollWaits' = 0
            /\ UNCHANGED <<apc, poll_count, anyRequest, exitCode, stderr,
                           genLog>>
    /\ UNCHANGED <<api_key, repository, fileVars>>

\* AppendAndSleep with an error string dropped instead of stored.
AppendAndSleep_SkipErrors ==
    /\ UNCHANGED <<content, passed>>
    /\ pc = "generate"
    /\ gpc = "returned"
    /\ ai_descriptions' = IF BeginsWithError(ret) THEN ai_descriptions
                          ELSE Append(ai_descriptions, ret)
    /\ delays' = delays + 1
    /\ idx' = idx + 1
    /\ pc' = "loop"
    /\ gpc' = "idle"
    /\ UNCHANGED <<api_key, repository, df, column, outputWritten,
                   exitCode, stderr, row, chatStatus, chatBody, e, ret,
                   genLog, agentVars, counters>>

\* AppendAndSleep with the delay skipped after an error string.
AppendAndSleep_NoDelayOnError ==
    /\ UNCHANGED <<content, passed>>
    /\ pc = "generate"
    /\ gpc = "returned"
    /\ ai_descriptions' = Append(ai_descriptions, ret)
    /\ delays' = IF BeginsWithError(ret) THEN delays ELSE delays + 1
    /\ idx' = idx + 1
    /\ pc' = "loop"
    /\ gpc' = "idle"
    /\ UNCHANGED <<api_key, repository, df, column, outputWritten,
                   exitCode, stderr, row, chatStatus, chatBody, e, ret,
                   genLog, agentVars, counters>>

\* lines 250-253: append the returned value and sleep
AppendAndSleep ==
    /\ UNCHANGED <<content, passed>>
    /\ pc = "generate"
    /\ gpc = "returned"
    /\ ai_descriptions' = Append(ai_descriptions, ret)
    /\ delays' = delays + 1
    /\ idx' = idx + 1
    /\ pc' = "loop"
    /\ gpc' = "idle"
    /\ UNCHANGED <<api_key, repository, df, column, outputWritten,
                   exitCode, stderr, row, chatStatus, chatBody, e, ret,
                   genLog, agentVars, counters>>

\* lines 255-275 and main's normal end: assign the column, choose the output
\* format and write the file.  out is output_path.suffix.lower(): the suffix
\* of output_file or, without one, that of the input file.
WriteOutput ==
    /\ UNCHANGED <<content, passed>>
    /\ pc = "loop"
    /\ idx >= Len(df)
    /\ \E out \in Suffixes, writable \in BOOLEAN :
          LET format == IF out = ".csv" THEN "csv"
                        ELSE IF out \in {".xlsx", ".xls"} THEN "excel"
                        ELSE "csv"
          IN IF Len(ai_descriptions) # Len(df)
             THEN /\ MainFails("ValueError: Length of values does not match")
                  /\ UNCHANGED <<column, outputWritten>>
             ELSE IF ~writable
             THEN /\ MainFails("OSError: cannot write the output file")
                  /\ column' = ai_descriptions
                  /\ UNCHANGED outputWritten
             ELSE /\ column' = ai_descriptions
                  /\ outputWritten' = format
                  /\ pc' = "done"
                  /\ exitCode' = 0
                  /\ UNCHANGED stderr
    /\ UNCHANGED <<api_key, repository, df, idx, ai_descriptions,
                   delays, genVars, agentVars, counters>>

\* ---------------------------------------------------- generate_description

\* The strings generate_description returns on its failure paths.
\* line 82
ErrNotAvailable ==
    <<"Error", ": Chat completions endpoint not available and ",
      "repository not provided", ". Agent API requires a repository.">>

\* line 87
ErrChatStatus(code) ==
    <<"Error", ": Chat completions failed (status ", code, ") and ",
      "repository not provided", ". Agent API requires a repository.">>

\* line 93
ErrChatFailed(exc) ==
    <<"Error", ": Chat endpoint failed and ", "repository not provided",
      ". Agent API requires a repository.", " Original error: ">> \o exc.msg

\* line 99
ErrGenerating(exc) == <<"Error", " generating description: ">> \o exc.msg

\* line 97
ErrBoth(exc, agent_error) ==
    <<"Error", " generating description: ">> \o exc.msg
        \o <<" (Agent API also failed: ">> \o agent_error.msg \o <<")">>

\* generate_description returns text: the call of the agent client, if any,
\* is over.
GenReturn(text) ==
    /\ gpc' = "returned"
    /\ ret' = text
    /\ genLog' = Append(genLog, [row |-> row, result |-> text])
    /\ apc' = "idle"
    /\ poll_count' = 0
    /\ statusQueries' = 0
    /\ pollWaits' = 0

\* generate_description calls generate_description_with_agent, from its try
\* block (lines 83, 88: ctx "agent_try") or from its handler (line 95: ctx
\* "agent_handler").
GenCallAgent(ctx) ==
    /\ gpc' = ctx
    /\ apc' = "create"
    /\ poll_count' = 0
    /\ statusQueries' = 0
    /\ pollWaits' = 0
    /\ UNCHANGED <<ret, genLog>>

\* GenCatch without the check of line 92: after a transport exception the
\* agent client is called whether or not a repository is configured.
GenCatch_AgentWithoutRepository(exc) ==
    /\ e' = exc
    /\ IF exc.cls = "RequestException"
       THEN GenCallAgent("agent_handler")
       ELSE GenReturn(ErrGenerating(exc))

\* GenCatch without the handler of line 98: an exception that is not a
\* RequestException leaves generate_description.
GenCatch_Propagates(exc) ==
    /\ e' = exc
    /\ IF exc.cls = "RequestException"
       THEN IF Falsy(repository)
            THEN GenReturn(ErrChatFailed(exc))
            ELSE GenCallAgent("agent_handler")
       ELSE /\ gpc' = "raised"
            /\ apc' = "idle"
            /\ UNCHANGED <<ret, genLog, poll_count, statusQueries, pollWaits>>

\* An exception raised inside the try block (lines 61-88) reaches the
\* handlers of lines 90-99, which bind it to e.
GenCatch(exc) ==
    /\ e' = exc
    /\ IF exc.cls = "RequestException"
       THEN IF Falsy(repository)
            THEN GenReturn(ErrChatFailed(exc))
            ELSE GenCallAgent("agent_handler")
       ELSE GenReturn(ErrGenerating(exc))

\* GenFallback without the checks of lines 81 and 86: the agent client is
\* called whether or not a repository is configured.
GenFallback_IgnoresRepository(code) ==
    /\ UNCHANGED e
    /\ GenCallAgent("agent_try")

\* lines 79-88: the completion endpoint answered with a status other than 200
GenFallback(code) ==
    /\ UNCHANGED e
    /\ IF Falsy(repository)
       THEN GenReturn(IF code = "404" THEN ErrNotAvailable
                      ELSE ErrChatStatus(code))
       ELSE GenCallAgent("agent_try")

\* lines 61-99 up to the call of the agent client: send the completion
\* request and handle its outcome
ChatPost ==
    /\ UNCHANGED <<content, passed>>
    /\ gpc = "chat"
    /\ chatPosts' = chatPosts + 1
    /\ anyRequest' = TRUE
    /\ \/ /\ chatStatus' = "RequestException"
          /\ chatBody' = 0
          /\ GenCatch(ConnError)
       \/ /\ chatStatus' = "Exception"
          /\ chatBody' = 0
          /\ GenCatch(OtherException(<<"unexpected">>))
       \/ \E code \in ChatStatuses \ {"200"} :
             /\ chatStatus' = code
             /\ chatBody' = 0
             /\ GenFallback(code)
       \/ \E i \in ChatBodyIds :
             LET r == ChatExtract(ChatBody(i))
             IN /\ chatStatus' = "200"
                /\ chatBody' = i
                /\ IF r.ok
                   THEN GenReturn(r.val.v) /\ UNCHANGED e
                   ELSE GenCatch(r.exc)
       \/ \E je \in JsonErrors :
             /\ chatStatus' = "200"
             /\ chatBody' = -1
             /\ GenCatch(je)
    /\ UNCHANGED <<pc, api_key, repository, exitCode, stderr, fileVars, row,
                   agentRet, agentExc, lastStatus, agentCreates, agentJobs>>

\* ----------------------------------------- generate_description_with_agent

\* Values of a field of a JSON answer: absent, null, '' or a text.
Missing == "<missing>"

Null == "<null>"

ToJson(x) == IF x = Null THEN JNull ELSE JStr(x)

\* The dict with key k bound to x, or without k when x is Missing.
Field(k, x) == IF x = Missing THEN <<>> ELSE k :> ToJson(x)

\* Python truthiness of a JSON value: None and '' are falsy.
Truthy(j) == j.t = "str" /\ j.v # <<>>

\* a or b
Or(a, b) == IF Truthy(a) THEN a ELSE b

\* str(x): 'None' for None
Str(j) == IF j.t = "null" THEN <<"None">> ELSE j.v

\* The 'id' of the answer to the creation request.
IdValues == IF Full THEN {Missing, Null, <<>>, <<"agent-1">>}
            ELSE {<<"agent-1">>}

\* The 'status' of a status answer that is not terminal.
PendingStatuses == IF Full THEN {Missing, Null, <<"RUNNING">>, <<"finished">>}
                   ELSE {<<"RUNNING">>}

FailureStatuses == IF Full THEN {<<"ERROR">>, <<"EXPIRED">>, <<"FAILED">>}
                   ELSE {<<"FAILED">>}

\* The 'error' of a status answer.
ErrorValues == IF Full THEN {Missing, <<"boom">>} ELSE {<<"boom">>}

\* The 'summary', 'result' and 'output' of a status answer.
SummaryValues == IF Full THEN {Missing, Null, <<>>, <<" ", "S", " ">>}
                 ELSE {<<" ", "S", " ">>}

ResultValues == IF Full THEN {Missing, Null, <<>>, <<"R">>} ELSE {Missing}

OutputValues == IF Full THEN {Missing, Null, <<>>, <<"O", " ">>} ELSE {Missing}

\* AgentRepositoryMissing with `is None` in place of `not`.
AgentRepositoryMissing_OnlyNone == repository = None

\* line 135: if not repository
AgentRepositoryMissing == Falsy(repository)

\* line 136
RepositoryRequired ==
    OtherException(<<"Repository is required for Cursor Agent API.">>)

\* line 152
CreateFailed(code) == OtherException(<<"Failed to create agent: ", code>>)

\* line 158
NoAgentId == OtherException(<<"No agent ID returned from API">>)

\* line 169
StatusFailed(code) == OtherException(<<"Failed to get agent status: ", code>>)

\* AgentEnded without the error detail.
AgentEnded_NoDetail(status, error_msg) ==
    OtherException(<<"Agent ended with status ">> \o status)

\* line 181
AgentEnded(status, error_msg) ==
    OtherException(<<"Agent ended with status ">> \o status \o <<": ">>
                   \o error_msg)

\* line 187
TimedOut == OtherException(<<"Agent did not complete within timeout period">>)

\* AttributeError of .get on an answer that is not a JSON object
NotADict == OtherException(<<"AttributeError: no attribute 'get'">>)

\* AgentReturns with the wait of line 184 done before the status is looked
\* at: the result is returned one wait late.
AgentReturns_AfterWait(text, q, w) ==
    /\ agentRet' = text
    /\ UNCHANGED agentExc
    /\ IF gpc = "direct"
       THEN /\ apc' = "returned"
            /\ statusQueries' = q
            /\ pollWaits' = w + 1
            /\ UNCHANGED <<gpc, e, ret, poll_count, genLog>>
       ELSE /\ GenReturn(text)
            /\ UNCHANGED e

\* The agent client returns text after q status queries and w waits.  Called
\* directly, the call is over; called by generate_description, that function
\* returns the text (lines 83, 88, 95).
AgentReturns(text, q, w) ==
    /\ agentRet' = text
    /\ UNCHANGED agentExc
    /\ IF gpc = "direct"
       THEN /\ apc' = "returned"
            /\ statusQueries' = q
            /\ pollWaits' = w
            /\ UNCHANGED <<gpc, e, ret, poll_count, genLog>>
       ELSE /\ GenReturn(text)
            /\ UNCHANGED e

\* The agent client raises exc after q status queries and w waits.  Called
\* from the try block, the exception reaches the handlers of lines 90-99;
\* called from the handler of line 90, it is caught at line 96.
AgentRaises(exc, q, w) ==
    /\ agentExc' = exc
    /\ UNCHANGED agentRet
    /\ IF gpc = "direct"
       THEN /\ apc' = "raised"
            /\ statusQueries' = q
            /\ pollWaits' = w
            /\ UNCHANGED <<gpc, e, ret, poll_count, genLog>>
       ELSE IF gpc = "agent_try"
       THEN GenCatch(exc)
       ELSE /\ GenReturn(ErrBoth(e, exc))
            /\ UNCHANGED e

\* lines 117-163: check the repository, send the creation request, read the
\* agent's id
AgentCreate ==
    /\ UNCHANGED <<content, passed>>
    /\ apc = "create"
    /\ IF AgentRepositoryMissing
       THEN /\ AgentRaises(RepositoryRequired, statusQueries, pollWaits)
            /\ UNCHANGED <<agentCreates, agentJobs, anyRequest>>
       ELSE /\ agentCreates' = agentCreates + 1
            /\ anyRequest' = TRUE
            /\ \/ AgentRaises(ConnError, 0, 0) /\ UNCHANGED agentJobs
               \/ \E code \in AgentStatuses \ {"200", "201"} :
                     AgentRaises(CreateFailed(code), 0, 0) /\ UNCHANGED agentJobs
               \/ \E je \in JsonErrors :
                     AgentRaises(je, 0, 0) /\ UNCHANGED agentJobs
               \/ Full /\ AgentRaises(NotADict, 0, 0) /\ UNCHANGED agentJobs
               \/ \E id \in IdValues :
                     LET agent_data == JDict(Field("id", id))
                         agent_id == DictGet(Val(agent_data), "id", JNull).val
                     IN IF ~Truthy(agent_id)
                        THEN AgentRaises(NoAgentId, 0, 0) /\ UNCHANGED agentJobs
                        ELSE /\ apc' = "poll"
                             /\ agentJobs' = agentJobs + 1
                             /\ poll_count' = 0
                             /\ statusQueries' = 0
                             /\ pollWaits' = 0
                             /\ UNCHANGED <<gpc, e, ret, genLog, agentRet,
                                            agentExc>>
    /\ lastStatus' = NoStatus
    /\ UNCHANGED <<pc, api_key, repository, exitCode, stderr, fileVars, row,
                   chatStatus, chatBody, chatPosts>>

\* AgentWaits without line 185: the attempt is not counted.
AgentWaits_NotCounted(q) ==
    /\ statusQueries' = q
    /\ pollWaits' = pollWaits + 1
    /\ poll_count' = poll_count
    /\ UNCHANGED <<gpc, e, ret, genLog, apc, agentRet, agentExc>>

\* lines 183-185: the status of the answer to query q is not terminal: wait
\* and count the attempt
AgentWaits(q) ==
    /\ statusQueries' = q
    /\ pollWaits' = pollWaits + 1
    /\ poll_count' = poll_count + 1
    /\ UNCHANGED <<gpc, e, ret, genLog, apc, agentRet, agentExc>>

\* lines 165-185: one turn of the polling loop
AgentPoll ==
    /\ UNCHANGED <<content, passed>>
    /\ apc = "poll"
    /\ poll_count < max_polls
    /\ anyRequest' = TRUE
    /\ LET q == statusQueries + 1
           w == pollWaits
       IN \/ /\ AgentRaises(ConnError, q, w)
             /\ lastStatus' = NoStatus
          \/ \E code \in AgentStatuses \ {"200"} :
                /\ AgentRaises(StatusFailed(code), q, w)
                /\ lastStatus' = NoStatus
          \/ \E je \in JsonErrors :
                /\ AgentRaises(je, q, w)
                /\ lastStatus' = NoStatus
          \/ /\ Full
             /\ AgentRaises(NotADict, q, w)
             /\ lastStatus' = NoStatus
          \/ \E sm \in SummaryValues, rs \in ResultValues, out \in OutputValues :
                LET status_data == JDict(Field("status", <<"FINISHED">>)
                                         @@ Field("summary", sm)
                                         @@ Field("result", rs)
                                         @@ Field("output", out))
                    d == Val(status_data)
                    result == Or(DictGet(d, "summary", JNull).val,
                                 Or(DictGet(d, "result", JNull).val,
                                    DictGet(d, "output", JStr(<<>>)).val))
                IN /\ AgentReturns(strip(Str(result)), q, w)
                   /\ lastStatus' = [status |-> <<"FINISHED">>, error |-> <<>>,
                                     data |-> status_data]
          \/ \E st \in FailureStatuses, err \in ErrorValues :
                LET status_data == JDict(Field("status", st)
                                         @@ Field("error", err))
                    d == Val(status_data)
                    status == DictGet(d, "status", JNull).val
                    error_msg == DictGet(d, "error",
                                         JStr(<<"Unknown error">>)).val
                IN /\ AgentRaises(AgentEnded(Str(status), Str(error_msg)), q, w)
                   /\ lastStatus' = [status |-> st,
                                     error |-> IF err = Missing THEN <<>>
                                               ELSE err,
                                     data |-> status_data]
          \/ \E st \in PendingStatuses :
                LET status_data == JDict(Field("status", st))
                IN /\ AgentWaits(q)
                   /\ lastStatus' = [status |-> <<>>, error |-> <<>>,
                                     data |-> status_data]
    /\ UNCHANGED <<pc, api_key, repository, exitCode, stderr, fileVars, row,
                   chatStatus, chatBody, chatPosts, agentCreates, agentJobs>>

\* lines 165 and 187: the loop ends without a terminal status
AgentTimeout ==
    /\ UNCHANGED <<content, passed>>
    /\ apc = "poll"
    /\ poll_count >= max_polls
    /\ AgentRaises(TimedOut, statusQueries, pollWaits)
    /\ UNCHANGED <<pc, api_key, repository, exitCode, stderr, fileVars, row,
                   chatStatus, chatBody, lastStatus, chatPosts, agentCreates,
                   agentJobs, anyRequest>>

\* ------------------------------ generate_description, the second variant

\* The variant of generate_description that sends the completion request
\* only and normalizes the text of the answer.  Its text is split into
\* lines at "\n"; a line is a sequence of tokens and "|" is the delimiter
\* token.

\* text.split("\n")
RECURSIVE Split(_)
Split(s) ==
    IF \A i \in 1..Len(s) : s[i] # "\n" THEN <<s>>
    ELSE LET k == CHOOSE i \in 1..Len(s) :
                      s[i] = "\n" /\ \A j \in 1..(i - 1) : s[j] # "\n"
         IN <<SubSeq(s, 1, k - 1)>> \o Split(SubSeq(s, k + 1, Len(s)))

\* "\n".join(lines)
RECURSIVE Join(_)
Join(lines) ==
    IF lines = <<>> THEN <<>>
    ELSE IF Len(lines) = 1 THEN lines[1]
    ELSE lines[1] \o <<"\n">> \o Join(Tail(lines))

\* The lines a completion's text is made of.
Lines == {<<"T1">>, <<"Scope">>, <<"Hosts", "|", "X">>, <<"A", "|", "B">>,
          <<>>}

\* The texts of at most MaxLines lines.
Responses == {Join(ls) : ls \in UNION {[1..n -> Lines] : n \in 1..MaxLines}}

\* "|" in line
HasPipe(line) == \E i \in 1..Len(line) : line[i] = "|"

\* lines without line i
Without(lines, i) ==
    SubSeq(lines, 1, i - 1) \o SubSeq(lines, i + 1, Len(lines))

\* StripTitleEcho that never removes a line.
StripTitleEcho_Never(title, lines) == lines

\* If the model echoed the title as its first line, strip that line.
StripTitleEcho(title, lines) ==
    IF lines # <<>> /\ lines[1] = <<title>> THEN Tail(lines) ELSE lines

\* The first line after line 1 that contains "|", 0 when there is none.
FirstPipedAfterFirst(lines) ==
    LET S == {i \in 2..Len(lines) : HasPipe(lines[i])}
    IN IF S = {} THEN 0 ELSE CHOOSE i \in S : \A j \in S : i <= j

\* PromotePipedLine that swaps the piped line with the first line.
PromotePipedLine_Swaps(lines) ==
    LET k == FirstPipedAfterFirst(lines)
    IN IF lines = <<>> \/ HasPipe(lines[1]) \/ k = 0 THEN lines
       ELSE [i \in 1..Len(lines) |->
                IF i = 1 THEN lines[k] ELSE IF i = k THEN lines[1]
                ELSE lines[i]]

\* Ensure the first remaining line contains "|"; if not, promote the first
\* later line that contains it to the front, the other lines keeping their
\* relative order.
PromotePipedLine(lines) ==
    LET k == FirstPipedAfterFirst(lines)
    IN IF lines = <<>> \/ HasPipe(lines[1]) \/ k = 0 THEN lines
       ELSE <<lines[k]>> \o Without(lines, k)

\* The normalization of a completion's text for a title.
Normalize(title, text) ==
    Join(PromotePipedLine(StripTitleEcho(title, Split(text))))

\* The completion request of the second variant: its text arrives, or an
\* API or parsing error collapses to an "Error generating description"
\* string.
ChatPostNormalizing ==
    /\ UNCHANGED passed
    /\ gpc = "chat_v2"
    /\ chatPosts' = chatPosts + 1
    /\ anyRequest' = TRUE
    /\ \/ \E text \in Responses :
             /\ content' = text
             /\ chatStatus' = "200"
             /\ gpc' = "normalize"
             /\ UNCHANGED <<e, ret, genLog, apc, poll_count, statusQueries,
                            pollWaits>>
       \/ \E exc \in {ConnError, OtherException(<<"unexpected">>)} :
             /\ chatStatus' = exc.cls
             /\ e' = exc
             /\ GenReturn(ErrGenerating(exc))
             /\ UNCHANGED content
    /\ UNCHANGED <<pc, api_key, repository, exitCode, stderr, fileVars, row,
                   chatBody, agentRet, agentExc, lastStatus, agentCreates,
                   agentJobs>>

\* The second variant returns the normalized text.
NormalizeAndReturn ==
    /\ UNCHANGED passed
    /\ gpc = "normalize"
    /\ GenReturn(Normalize(row.title, content))
    /\ UNCHANGED <<pc, api_key, repository, exitCode, stderr, fileVars, row,
                   chatStatus, chatBody, e, content, agentRet, agentExc,
                   lastStatus, chatPosts, agentCreates, agentJobs,
                   anyRequest>>

\* ---------------------------------------------------------- specifications

Next ==
    \/ LoadPromptTemplate
    \/ GetApiKey
    \/ ReadInput
    \/ LoopNext
    \/ ChatPost
    \/ AgentCreate
    \/ AgentPoll
    \/ AgentTimeout
    \/ AppendAndSleep
    \/ WriteOutput

\* A run of the program: main, process_file and what they call.
Spec == Init /\ [][Next]_vars

\* generate_description_with_agent called directly, with any repository.
InitAgent ==
    /\ pc = "direct"
    /\ api_key = "KEY"
    /\ repository \in RepoValues
    /\ gpc = "direct"
    /\ apc = "create"
    /\ Fresh

NextAgent ==
    \/ AgentCreate
    \/ AgentPoll
    \/ AgentTimeout

SpecAgent == InitAgent /\ [][NextAgent]_vars

\* generate_description called directly, for one row and with any repository.
InitRow ==
    /\ pc = "direct"
    /\ api_key = "KEY"
    /\ repository \in RepoValues
    /\ gpc = "chat"
    /\ apc = "idle"
    /\ df = <<>>
    /\ idx = 0
    /\ ai_descriptions = <<>>
    /\ column = <<>>
    /\ outputWritten = None
    /\ exitCode = -1
    /\ stderr = None
    /\ delays = 0
    /\ row \in {r \in Rows : r.title # NaN}
    /\ chatStatus = None
    /\ chatBody = 0
    /\ e = NoExc
    /\ ret = <<>>
    /\ poll_count = 0
    /\ agentRet = <<>>
    /\ agentExc = NoExc
    /\ lastStatus = NoStatus
    /\ chatPosts = 0
    /\ agentCreates = 0
    /\ agentJobs = 0
    /\ statusQueries = 0
    /\ pollWaits = 0
    /\ anyRequest = FALSE
    /\ genLog = <<>>
    /\ content = <<>>
    /\ passed = {}

NextRow ==
    \/ ChatPost
    \/ AgentCreate
    \/ AgentPoll
    \/ AgentTimeout

SpecRow == InitRow /\ [][NextRow]_vars

\* The second variant of generate_description called directly, for one row.
InitNormalize ==
    /\ pc = "direct"
    /\ api_key = "KEY"
    /\ repository = None
    /\ gpc = "chat_v2"
    /\ apc = "idle"
    /\ \E r \in {r \in Rows : r.title # NaN} :
          /\ row = r
          /\ df = <<>>
          /\ idx = 0
          /\ ai_descriptions = <<>>
          /\ column = <<>>
          /\ outputWritten = None
          /\ exitCode = -1
          /\ stderr = None
          /\ delays = 0
          /\ chatStatus = None
          /\ chatBody = 0
          /\ e = NoExc
          /\ ret = <<>>
          /\ poll_count = 0
          /\ agentRet = <<>>
          /\ agentExc = NoExc
          /\ lastStatus = NoStatus
          /\ chatPosts = 0
          /\ agentCreates = 0
          /\ agentJobs = 0
          /\ statusQueries = 0
          /\ pollWaits = 0
          /\ anyRequest = FALSE
          /\ genLog = <<>>
          /\ content = <<>>
          /\ passed = {}

NextNormalize ==
    \/ ChatPostNormalizing
    \/ NormalizeAndReturn

SpecNormalize == InitNormalize /\ [][NextNormalize]_vars

\* ------------------------------------------------------------------ claims

\* Whether text holds the tokens of part, in a row.
Carries(text, part) ==
    \E i \in 1..(Len(text) - Len(part) + 1) :
        SubSeq(text, i, i + Len(part) - 1) = part

\* The errors that end a run: those process_file raises by itself.
RunLevelErrors ==
    {"FileNotFoundError: Prompt file not found",
     "ValueError: Cursor API key not provided",
     "FileNotFoundError: Input file not found",
     "ValueError: Unsupported file type",
     "pandas: cannot read the file",
     "ValueError: Missing required columns",
     "TypeError: 'float' object is not subscriptable",
     "OSError: cannot write the output file"}

\* C1: the loop stores one value per row it has finished, value i being what
\* generate_description returned for row i of the table, in the table's
\* order; a run that ends normally has a column of as many values as the
\* table has rows; and no row's generation ends the run: a run that fails
\* fails with an error of process_file itself.
C1_OneValuePerRowInOrder ==
    /\ idx <= Len(df)
    /\ Len(ai_descriptions) = idx
    /\ Len(genLog) = idx + (IF gpc = "returned" THEN 1 ELSE 0)
    /\ \A i \in 1..idx :
          /\ genLog[i].row = df[i]
          /\ ai_descriptions[i] = genLog[i].result
    /\ pc = "done" =>
          /\ idx = Len(df)
          /\ Len(column) = Len(df)
          /\ column = ai_descriptions
    /\ pc = "exit" => exitCode = 1 /\ stderr \in RunLevelErrors

C1_Witness ==
    /\ pc = "done"
    /\ Len(df) = 2
    /\ df[1] # df[2]
    /\ BeginsWithError(column[1])
    /\ ~BeginsWithError(column[2])

\* A call of generate_description failed: it has returned, the agent client
\* returned no result, and the completion request did not answer 200 with
\* a body the text was read from.
GenFailed ==
    /\ gpc = "returned"
    /\ lastStatus.status # <<"FINISHED">>
    /\ chatStatus # "200" \/ e # NoExc

\* C2: a call of generate_description ends by returning, whatever the
\* completion request and the agent client do, and what it returns on a
\* failure path begins with "Error".
C2_NeverRaises ==
    /\ gpc \in {"chat", "agent_try", "agent_handler", "returned"}
    /\ GenFailed => BeginsWithError(ret)
    /\ gpc = "returned" => apc = "idle" /\ Len(genLog) = 1

C2_Witness ==
    /\ GenFailed
    /\ chatStatus = "RequestException"
    /\ agentExc = TimedOut
    /\ agentExc.cls = "Exception"

\* C3: when a status answer says FAILED, the failure the agent client raises
\* carries the error detail of the answer, generate_description returns a
\* string that begins with "Error", that string is the row's stored value,
\* and the run goes on: it ends normally with a value for every row, or with
\* an error of process_file itself.
C3_FailedJobBecomesErrorValue ==
    LET failed == lastStatus.status = <<"FAILED">>
    IN /\ failed => /\ agentExc.cls = "Exception"
                    /\ Carries(agentExc.msg, <<"FAILED">>)
                    /\ Carries(agentExc.msg, lastStatus.error)
                    /\ lastStatus.error # <<>>
                    /\ gpc \in {"returned", "idle"}
                    /\ pc \in {"generate", "loop", "done", "exit"}
       /\ failed /\ gpc = "returned" => BeginsWithError(ret)
       /\ failed /\ pc \in {"loop", "done"} =>
             /\ idx >= 1
             /\ ai_descriptions[idx] = ret
             /\ BeginsWithError(ai_descriptions[idx])
       /\ failed /\ pc = "exit" => stderr \in RunLevelErrors
       /\ \A i \in 1..Len(ai_descriptions) :
             Carries(ai_descriptions[i], <<"FAILED">>) =>
                 BeginsWithError(ai_descriptions[i])
       /\ pc = "done" => Len(column) = Len(df)

C3_Witness ==
    /\ pc = "done"
    /\ Len(column) = 2
    /\ Carries(column[1], <<"FAILED">>)
    /\ Carries(column[1], <<"boom">>)
    /\ ~BeginsWithError(column[2])

\* C4: the agent client sends at most 60 status queries for a job; while it
\* polls, the queries sent, the 5-unit waits done and poll_count are equal;
\* and the timeout failure is raised after exactly 60 queries and 60 waits
\* (300 units), never earlier and never after a 61st query.
C4_TimeoutAfterExactlySixtyPolls ==
    /\ statusQueries <= 60
    /\ apc = "poll" => statusQueries = poll_count /\ pollWaits = poll_count
    /\ agentExc = TimedOut =>
          /\ apc = "raised"
          /\ statusQueries = 60
          /\ pollWaits = 60
          /\ pollWaits * poll_interval = 300
          /\ lastStatus.status = <<>>

C4_Witness ==
    /\ apc = "raised"
    /\ agentExc = TimedOut
    /\ statusQueries = 60

\* C5: while process_file has no API key (none passed and none found in the
\* environment), no request has been sent and no table has been read, and
\* the run can only end as a failure with exit code 1.
C5_NoKeyNoRequest ==
    Falsy(api_key) =>
        /\ ~anyRequest
        /\ chatPosts = 0 /\ agentCreates = 0 /\ statusQueries = 0
        /\ df = <<>>
        /\ pc \in {"load_prompt", "get_key", "exit"}
        /\ pc = "exit" =>
              /\ exitCode = 1
              /\ stderr \in {"FileNotFoundError: Prompt file not found",
                            "ValueError: Cursor API key not provided"}

C5_Witness ==
    /\ pc = "exit"
    /\ stderr = "ValueError: Cursor API key not provided"
    /\ api_key = ""
    /\ exitCode = 1

\* C6: for one row at most one agent job is created (and so at most one
\* creation request, POST /v0/agents, is answered with a job).
C6_AtMostOneAgentJobPerRow == agentJobs <= 1

\* The outcomes of the completion request that C7 and C9 are about: 404,
\* another status that is not 200, a transport exception.
FallbackStatuses == {"404", "500", "RequestException"}

\* An error string that says the repository is missing.
RepositoryError(text) ==
    BeginsWithError(text) /\ Carries(text, <<"repository not provided">>)

\* C7: after the completion request answered 404 or another status that is
\* not 200, or raised a transport exception: with a repository configured
\* generate_description has called the agent client (from its try block
\* after a status, from its handler after an exception), and without one it
\* has returned an error string that says so and no request went to the
\* agent API.
C7_FallbackOrDescriptiveError ==
    chatStatus \in FallbackStatuses =>
        IF Falsy(repository)
        THEN /\ gpc = "returned"
             /\ RepositoryError(ret)
             /\ apc = "idle"
             /\ agentCreates = 0
             /\ statusQueries = 0
             /\ agentExc = NoExc
        ELSE /\ gpc \in {"agent_try", "agent_handler", "returned"}
             /\ gpc = "agent_try" => chatStatus \in {"404", "500"}
             /\ chatStatus = "RequestException" /\ gpc # "returned" =>
                    gpc = "agent_handler" /\ e = ConnError
             /\ apc = "idle" <=> gpc = "returned"
             /\ gpc = "returned" => agentCreates >= 1
             /\ apc = "poll" => agentCreates >= 1

C7_Witness ==
    /\ chatStatus = "404"
    /\ Falsy(repository)
    /\ gpc = "returned"
    /\ ret = ErrNotAvailable

\* The bodies of a 200 answer without the text of a first choice: no
\* 'choices', an empty 'choices', a first choice without 'message', a message
\* without 'content'.
BodiesWithoutText == {1, 2, 3, 4}

\* C8: after a 200 answer generate_description returns the trimmed text of
\* the first choice, and the empty string when that text is absent.
C8_TextOrEmptyString ==
    chatStatus = "200" /\ gpc = "returned" =>
        /\ chatBody \in BodiesWithoutText => ret = <<>>
        /\ chatBody = 5 => ret = <<"Hosts">>

\* C9 as claimed: a run in which the fallback is needed and no repository is
\* configured does not end normally.
C9_MissingRepositoryAbortsRun ==
    chatStatus \in FallbackStatuses /\ Falsy(repository) => pc # "done"

\* C9 as amended: when the fallback is needed and no repository is
\* configured, the agent client is not called and raises nothing,
\* generate_description returns an error string that says the repository is
\* missing, that string is the row's stored value and the run goes on; if the
\* run fails, it fails with an error of process_file itself.
C9_MissingRepositoryIsRowLocal ==
    chatStatus \in FallbackStatuses /\ Falsy(repository) =>
        /\ agentCreates = 0
        /\ agentExc = NoExc
        /\ apc = "idle"
        /\ gpc \in {"returned", "idle"}
        /\ pc \in {"generate", "loop", "done", "exit"}
        /\ RepositoryError(ret)
        /\ pc \in {"loop", "done"} => idx >= 1 /\ ai_descriptions[idx] = ret
        /\ pc = "done" => exitCode = 0 /\ column[idx] = ret
        /\ pc = "exit" =>
              stderr \in {"TypeError: 'float' object is not subscriptable",
                          "OSError: cannot write the output file"}

C9_Witness ==
    /\ pc = "done"
    /\ exitCode = 0
    /\ Falsy(repository)
    /\ chatStatus = "RequestException"
    /\ Len(column) = 2
    /\ RepositoryError(column[1])
    /\ RepositoryError(column[2])

\* C10: called without a repository (None or ''), the agent client sends no
\* request, neither a creation request nor a status query, and ends by
\* raising.
C10_NoRepositoryNoRequest ==
    Falsy(repository) =>
        /\ ~anyRequest
        /\ agentCreates = 0
        /\ statusQueries = 0
        /\ apc \in {"create", "raised"}
        /\ apc = "raised" => agentExc = RepositoryRequired

C10_Witness ==
    /\ apc = "raised"
    /\ repository = ""
    /\ agentExc = RepositoryRequired
    /\ ~anyRequest

\* A step that sends an HTTP request, or is the agent client's check of its
\* repository.
RequestStep == ChatPost \/ AgentCreate \/ AgentPoll

\* The loop is inside the call for the row after the finished ones: every
\* earlier value is appended and every earlier delay is done.
InCallForNextRow ==
    /\ pc = "generate"
    /\ idx < Len(df)
    /\ row = df[idx + 1]
    /\ Len(genLog) = idx
    /\ Len(ai_descriptions) = idx
    /\ delays = idx

\* C11: process_file sleeps once, for the fixed delay, after each call of
\* generate_description, after an error string as after content: the delays
\* done are as many as the rows finished, a finished run of n rows did n
\* delays, the step that leaves a returned call appends its value and does
\* one delay, and a request is only sent for the row after the finished ones,
\* with every earlier value appended and every earlier delay done (no step
\* taken elsewhere sends a request).
C11_OneDelayPerRowBeforeNextRequest ==
    /\ [](/\ delays = idx
          /\ delays = Len(ai_descriptions)
          /\ delays * row_delay = 2 * idx
          /\ pc = "done" => delays = Len(df))
    /\ [][/\ gpc = "returned" /\ gpc' # "returned" =>
                /\ delays' = delays + 1
                /\ ai_descriptions' = Append(ai_descriptions, ret)
          /\ ~InCallForNextRow => ~RequestStep]_vars

C11_Witness ==
    /\ pc = "generate"
    /\ idx = 1
    /\ delays = 1
    /\ BeginsWithError(ai_descriptions[1])
    /\ chatPosts = 1
    /\ gpc = "returned"
    /\ ~BeginsWithError(ret)

\* The first line of lines at or after line i that contains "|", 0 when
\* there is none.
FirstPipedFrom(lines, i) ==
    LET S == {j \in i..Len(lines) : HasPipe(lines[j])}
    IN IF S = {} THEN 0 ELSE CHOOSE j \in S : \A m \in S : j <= m

\* The lines of lines from line i on whose index is not in drop, in their
\* order.
RECURSIVE OtherLinesFrom(_, _, _)
OtherLinesFrom(lines, drop, i) ==
    IF i > Len(lines) THEN <<>>
    ELSE (IF i \in drop THEN <<>> ELSE <<lines[i]>>)
             \o OtherLinesFrom(lines, drop, i + 1)

OtherLines(lines, drop) == OtherLinesFrom(lines, drop, 1)

\* The second variant returned the normalization of the text of an answer.
ReturnedNormalized == gpc = "returned" /\ chatStatus = "200"

\* C12 as claimed: when the first line of the response equals the title
\* exactly, the returned value has one line less and its first line is the
\* next line of the original response.
C12_TitleLineRemovedNextLineFirst ==
    LET L == Split(content)
    IN ReturnedNormalized /\ L[1] = <<row.title>> =>
          /\ Len(L) = 1 => ret = <<>>
          /\ Len(L) >= 2 => /\ Len(Split(ret)) = Len(L) - 1
                            /\ Split(ret)[1] = L[2]

\* C12 as amended: when the first line of the response equals the title
\* exactly, the returned value has that line removed; its first line is the
\* first line after the title that contains "|", moved to the front, or the
\* next line of the original response when that line contains "|" or no
\* line after the title does; the other lines keep their order.
C12_TitleLineRemovedThenPromotion ==
    LET L == Split(content)
        p == FirstPipedFrom(L, 2)
        k == IF p = 0 THEN 2 ELSE p
    IN ReturnedNormalized /\ L[1] = <<row.title>> =>
          /\ Len(L) = 1 => ret = <<>>
          /\ Len(L) >= 2 =>
                /\ Split(ret) = <<L[k]>> \o OtherLines(L, {1, k})
                /\ HasPipe(L[2]) \/ p = 0 => Split(ret)[1] = L[2]

C12_Witness ==
    /\ ReturnedNormalized
    /\ row.title = "T1"
    /\ content = Join(<<<<"T1">>, <<"A", "|", "B">>, <<"Scope">>>>)
    /\ ret = Join(<<<<"A", "|", "B">>, <<"Scope">>>>)

\* C13 as claimed: when the first line of the response has no "|" and a
\* later line has one, the returned value is the response with the first
\* such line moved to the front and every other line kept, in the original
\* order.
C13_PipedLinePromotedOthersKept ==
    LET L == Split(content)
        k == FirstPipedFrom(L, 2)
    IN ReturnedNormalized /\ ~HasPipe(L[1]) /\ k # 0 =>
          Split(ret) = <<L[k]>> \o OtherLines(L, {k})

\* C13 as amended: when the first line of the response has no "|" and a
\* later line has one, the returned value has the first such line at the
\* front and every other line kept, in the original order, except a first
\* line that equals the title exactly, which is removed.
C13_PipedLinePromotedTitleRemoved ==
    LET L == Split(content)
        k == FirstPipedFrom(L, 2)
        echo == IF L[1] = <<row.title>> THEN {1} ELSE {}
    IN ReturnedNormalized /\ ~HasPipe(L[1]) /\ k # 0 =>
          /\ Split(ret)[1] = L[k]
          /\ Tail(Split(ret)) = OtherLines(L, {k} \cup echo)

C13_Witness ==
    /\ ReturnedNormalized
    /\ row.title = "T2"
    /\ content = Join(<<<<"Scope">>, <<"T1">>, <<"Hosts", "|", "X">>>>)
    /\ ret = Join(<<<<"Hosts", "|", "X">>, <<"Scope">>, <<"T1">>>>)

\* C14: generate_description sends the completion request first and once
\* per row; the agent client is only invoked after that request answered
\* with a status other than 200 or raised a transport exception; and for a
\* row whose completion request answered 200 the agent client is not
\* invoked and no agent job is created.
C14_CompletionFirstAgentOnlyAfterFailure ==
    /\ chatPosts <= 1
    /\ gpc \in {"agent_try", "agent_handler", "returned"} => chatPosts = 1
    /\ apc # "idle" \/ agentCreates > 0 =>
          /\ chatPosts = 1
          /\ chatStatus \in FallbackStatuses
    /\ chatStatus = "200" =>
          /\ apc = "idle"
          /\ agentCreates = 0
          /\ agentJobs = 0

\* The statuses that end a job.
TerminalStatuses == {<<"FINISHED">>, <<"ERROR">>, <<"EXPIRED">>, <<"FAILED">>}

\* The error detail of the last status answer: its 'error', or the default
\* of line 180.
ReportedDetail ==
    IF lastStatus.error = <<>> THEN <<"Unknown error">> ELSE lastStatus.error

\* C15: polling stops at the first terminal status.  Once a status answer
\* says FINISHED, ERROR, EXPIRED or FAILED the agent client has returned
\* (FINISHED, and only then) or raised a failure that carries the status and
\* the reported error detail (ERROR, EXPIRED, FAILED); the answer came at
\* one of the attempts 1 to 60 and was followed by no wait; and from then on
\* no status query is sent and no wait is done for the job.
C15_PollingStopsAtTerminalStatus ==
    /\ [](/\ lastStatus.status \in TerminalStatuses =>
                /\ apc \in {"returned", "raised"}
                /\ statusQueries \in 1..60
                /\ pollWaits = statusQueries - 1
                /\ poll_count = pollWaits
                /\ lastStatus.status = <<"FINISHED">> =>
                      apc = "returned" /\ agentExc = NoExc
                /\ lastStatus.status # <<"FINISHED">> =>
                      /\ apc = "raised"
                      /\ Carries(agentExc.msg, lastStatus.status)
                      /\ Carries(agentExc.msg, ReportedDetail)
          /\ apc = "returned" => lastStatus.status = <<"FINISHED">>)
    /\ [][(lastStatus.status \in TerminalStatuses) =>
             /\ statusQueries' = statusQueries
             /\ pollWaits' = pollWaits
             /\ apc' = apc]_vars

C15_Witness ==
    /\ lastStatus.status = <<"EXPIRED">>
    /\ lastStatus.error = <<"boom">>
    /\ apc = "raised"
    /\ statusQueries = 60
    /\ pollWaits = 59

\* Whether field k of the last status answer carries a value: it is present
\* and a text that is not empty.
Present(k) ==
    /\ k \in DOMAIN lastStatus.data.v
    /\ lastStatus.data.v[k].t = "str"
    /\ lastStatus.data.v[k].v # <<>>

FieldText(k) == lastStatus.data.v[k].v

\* C16: after a FINISHED answer the agent client returns the trimmed text of
\* the first of 'summary', 'result', 'output' that carries a value, and the
\* empty string when none of them does.
C16_FirstPresentFieldTrimmed ==
    lastStatus.status = <<"FINISHED">> /\ apc = "returned" =>
        agentRet = IF Present("summary") THEN strip(FieldText("summary"))
                   ELSE IF Present("result") THEN strip(FieldText("result"))
                   ELSE IF Present("output") THEN strip(FieldText("output"))
                   ELSE <<>>

\* The 'status' the last status answer reports: its text, or the empty text
\* when the field is absent or null.
ReportedStatus ==
    IF "status" \in DOMAIN lastStatus.data.v
       /\ lastStatus.data.v["status"].t = "str"
    THEN lastStatus.data.v["status"].v
    ELSE <<>>

\* C17: a status answer whose status is not FINISHED, ERROR, EXPIRED or
\* FAILED (an absent or null field and unknown texts included) is treated as
\* pending: it produces no result and no failure, it is followed by one
\* 5-unit wait and counts as one attempt, and the client polls again unless
\* it was attempt 60, in which case the only failure is the timeout.
C17_OtherStatusesArePending ==
    lastStatus.data.t = "dict" /\ ReportedStatus \notin TerminalStatuses =>
        /\ apc \in {"poll", "raised"}
        /\ agentRet = <<>>
        /\ statusQueries \in 1..60
        /\ pollWaits = statusQueries
        /\ pollWaits * poll_interval = 5 * statusQueries
        /\ poll_count = statusQueries
        /\ poll_count < 60 => apc = "poll" /\ agentExc = NoExc
        /\ apc = "raised" => poll_count = 60 /\ agentExc = TimedOut

C17_Witness ==
    /\ lastStatus.data.t = "dict"
    /\ "status" \notin DOMAIN lastStatus.data.v
    /\ apc = "poll"
    /\ poll_count = 3
    /\ statusQueries = 3
    /\ pollWaits = 3

\* The errors process_file raises before its loop over the rows.
PreLoopErrors ==
    {"FileNotFoundError: Prompt file not found",
     "ValueError: Cursor API key not provided",
     "FileNotFoundError: Input file not found",
     "ValueError: Unsupported file type",
     "pandas: cannot read the file",
     "ValueError: Missing required columns"}

\* C18: the requests and waits of one row are bounded: one completion
\* request, one creation request per call of the agent client (there are at
\* most two calls), at most 60 status queries and 60 waits per job; and
\* a run that has read its table ends at the write of the output: it ends
\* normally or with the failure of that write.
C18_BoundedRequestsRunReachesWrite ==
    /\ chatPosts <= 1
    /\ agentCreates <= 2
    /\ agentJobs <= agentCreates
    /\ statusQueries <= 60
    /\ pollWaits <= 60
    /\ pc = "exit" /\ stderr \notin PreLoopErrors =>
          /\ idx = Len(df)
          /\ stderr = "OSError: cannot write the output file"

\* The preconditions of a run: the prompt template is present, there is an
\* API key, the input file exists and has a supported extension, the
\* columns 'title' and 'description' are both present.
Preconditions == {"prompt", "key", "input", "columns"}

\* C19: process_file sends no request and writes no output unless every
\* precondition of the run has passed: while one is unchecked or has failed,
\* no request has been sent, no call of generate_description has begun and
\* nothing is written; and the output is written only after the last row:
\* with a value stored and a delay done for every row of the table.
C19_NoRequestNoOutputBeforePreconditions ==
    /\ passed # Preconditions =>
          /\ ~anyRequest
          /\ chatPosts = 0 /\ agentCreates = 0 /\ statusQueries = 0
          /\ gpc = "idle" /\ apc = "idle"
          /\ genLog = <<>>
          /\ outputWritten = None
          /\ column = <<>>
          /\ pc \in {"load_prompt", "get_key", "read_input", "exit"}
    /\ pc = "exit" /\ stderr \in PreLoopErrors => passed # Preconditions
    /\ anyRequest \/ outputWritten # None => ~Falsy(api_key)
    /\ outputWritten # None =>
          /\ pc = "done"
          /\ idx = Len(df)
          /\ Len(genLog) = Len(df)
          /\ Len(column) = Len(df)
          /\ column = ai_descriptions
          /\ delays = Len(df)

C19_Witness ==
    /\ pc = "done"
    /\ outputWritten = "excel"
    /\ passed = Preconditions
    /\ Len(df) = 2
    /\ anyRequest
    /\ Len(column) = 2

====
